---- MODULE Spec2Model ----
(***************************************************************************)
(* A model of nestegg's machine core (src/src/lib.rs): ComputerState with  *)
(* its memory image and RegisterFile, the memory readers, the operand      *)
(* resolver fetch_operand, step and multiple_steps.                        *)
(*                                                                         *)
(* Rust failures are panics.  A panicking call yields no value; the model  *)
(* records the panic payload and the state of `self` at the point where    *)
(* unwinding started.  `+=` on a u16 panics when the build has overflow    *)
(* checks (the debug profile) and wraps otherwise (the release profile):   *)
(* overflow_checks is the build's choice.                                  *)
(*                                                                         *)
(* No code writes the accumulator, x, y, status or stack_pointer, so the   *)
(* initial states are ComputerState values built field by field (both      *)
(* fields are pub, the registers are visible inside the crate): the        *)
(* functions are run on register files other than the default one.         *)
(*                                                                         *)
(* The parser (src/src/parser/mod.rs) is a second component with a state   *)
(* of its own: parse's token slice mut_tokens and its statements.  SpecParse*)
(* runs it; Spec runs the machine core.                                    *)
(***************************************************************************)
EXTENDS Integers, Sequences, FiniteSets, TLC

VARIABLES memory, registers, overflow_checks, owned, call, ret, panicked, pre, ops,
          tokens, mut_tokens, statements, parsed_statement, program

vars == <<memory, registers, overflow_checks, owned, call, ret, panicked, pre, ops,
          tokens, mut_tokens, statements, parsed_statement, program>>

-----------------------------------------------------------------------------
(* Widths of the Rust integer types used by the code. *)

\* u8: 0 .. 255
U8Size == 256
\* u16: 0 .. 65535
U16Size == 65536

-----------------------------------------------------------------------------
(* Bit operations on naturals, computed bit by bit. *)

RECURSIVE BitAnd(_, _)
BitAnd(a, b) ==
    IF a = 0 \/ b = 0 THEN 0
    ELSE (IF a % 2 = 1 /\ b % 2 = 1 THEN 1 ELSE 0) + 2 * BitAnd(a \div 2, b \div 2)

RECURSIVE BitOr(_, _)
BitOr(a, b) ==
    IF a = 0 THEN b
    ELSE IF b = 0 THEN a
    ELSE (IF a % 2 = 1 \/ b % 2 = 1 THEN 1 ELSE 0) + 2 * BitOr(a \div 2, b \div 2)

\* `v << k` on a u16: the bits shifted past bit 15 are lost.
RECURSIVE Shl16(_, _)
Shl16(v, k) == IF k = 0 THEN v % U16Size ELSE Shl16((2 * v) % U16Size, k - 1)

-----------------------------------------------------------------------------
(* Memory: a Vec<u8>.  An image is held as its length and its bytes, the   *)
(* bytes as a fill value and the places that differ from it, so that       *)
(* images covering the whole 16-bit address space stay small states.       *)

Image(len, fill, ov) == [len |-> len, fill |-> fill, ov |-> ov]

\* B[i] for 0 <= i < B.len
ByteAt(B, i) == IF i \in DOMAIN B.ov THEN B.ov[i] ELSE B.fill

-----------------------------------------------------------------------------
(* Panic payloads. *)

NoPanic == [kind |-> "none", len |-> 0, index |-> 0, opcode |-> 0]
\* "index out of bounds: the len is {len} but the index is {index}"
IndexOutOfBounds(len, index) ==
    [kind |-> "index_out_of_bounds", len |-> len, index |-> index, opcode |-> 0]
\* "attempt to add with overflow"
AddOverflow == [kind |-> "add_overflow", len |-> 0, index |-> 0, opcode |-> 0]
\* "called `Result::unwrap()` on an `Err` value: UndefinedOpcode(opcode)"
UnwrapUndefinedOpcode(opcode) ==
    [kind |-> "undefined_opcode", len |-> 0, index |-> 0, opcode |-> opcode]

Panics(p) == p.kind # "none"

-----------------------------------------------------------------------------
(* RegisterFile and ComputerState. *)

RegisterFile(a, x, y, status, sp, pc) ==
    [accumulator |-> a, x |-> x, y |-> y, status |-> status,
     stack_pointer |-> sp, program_counter |-> pc]

\* the stack pointer at the top of its page, as after a hardware reset
DefaultRegisterFile_reset == RegisterFile(0, 0, 0, 0, 255, 0)

\* #[derive(Default)]: every register zero
DefaultRegisterFile == RegisterFile(0, 0, 0, 0, 0, 0)

ComputerState(mem, regs) == [memory |-> mem, registers |-> regs]

initialize_from_image_zeroing(image) ==
    ComputerState(Image(image.len, 0, <<>>), DefaultRegisterFile)

initialize_from_image(image) == ComputerState(image, DefaultRegisterFile)

-----------------------------------------------------------------------------
(* The memory readers.  A result is the value read, the indices touched in *)
(* order (the failing one included) and the panic, if any.                 *)

Read(value, reads, panic) == [value |-> value, reads |-> reads, panic |-> panic]

get_byte_from_memory_wrapping(mem, index) ==
    IF mem.len = 0 THEN Read(0, <<index>>, IndexOutOfBounds(mem.len, index))
    ELSE Read(ByteAt(mem, index % mem.len), <<index % mem.len>>, NoPanic)

get_byte_from_memory(mem, index) ==
    IF index < mem.len
    THEN Read(ByteAt(mem, index), <<index>>, NoPanic)
    ELSE Read(0, <<index>>, IndexOutOfBounds(mem.len, index))

get_word_from_memory_big_endian(mem, index) ==
    IF index >= mem.len
    THEN Read(0, <<index>>, IndexOutOfBounds(mem.len, index))
    ELSE IF index + 1 >= mem.len
    THEN Read(0, <<index, index + 1>>, IndexOutOfBounds(mem.len, index + 1))
    ELSE Read(BitOr(Shl16(ByteAt(mem, index), 8), ByteAt(mem, index + 1)),
              <<index, index + 1>>, NoPanic)

get_word_from_memory(mem, index) ==
    IF index >= mem.len
    THEN Read(0, <<index>>, IndexOutOfBounds(mem.len, index))
    ELSE IF index + 1 >= mem.len
    THEN Read(0, <<index, index + 1>>, IndexOutOfBounds(mem.len, index + 1))
    ELSE LET low == ByteAt(mem, index)
             high == ByteAt(mem, index + 1)
         IN Read(BitOr(Shl16(high, 8), low), <<index, index + 1>>, NoPanic)

-----------------------------------------------------------------------------
(* The instruction decoder (mod instruction, not among the sources at      *)
(* hand): decode_instruction(byte) is Ok((OperandMode, Operation)) for an  *)
(* opcode of the table and Err(UndefinedOpcode(byte)) otherwise.  The      *)
(* table below is an excerpt of the architecture's table holding at least  *)
(* one opcode per operand mode; the model decodes every opcode outside the *)
(* excerpt to the error.                                                   *)

OperandMode ==
    {"Absolute", "AbsoluteX", "AbsoluteY", "Accumulator", "Immediate", "Implied",
     "Indirect", "IndirectX", "IndirectY", "ZeroPage", "ZeroPageX", "ZeroPageY"}

InstructionTable ==
    (0 :> <<"Implied", "BRK">>) @@ (1 :> <<"IndirectX", "ORA">>) @@
    (5 :> <<"ZeroPage", "ORA">>) @@ (10 :> <<"Accumulator", "ASL">>) @@
    (108 :> <<"Indirect", "JMP">>) @@ (161 :> <<"IndirectX", "LDA">>) @@
    (165 :> <<"ZeroPage", "LDA">>) @@ (169 :> <<"Immediate", "LDA">>) @@
    (173 :> <<"Absolute", "LDA">>) @@ (177 :> <<"IndirectY", "LDA">>) @@
    (181 :> <<"ZeroPageX", "LDA">>) @@ (182 :> <<"ZeroPageY", "LDX">>) @@
    (185 :> <<"AbsoluteY", "LDA">>) @@ (189 :> <<"AbsoluteX", "LDA">>) @@
    (234 :> <<"Implied", "NOP">>)

decode_instruction(byte) ==
    IF byte \in DOMAIN InstructionTable
    THEN [ok |-> TRUE, mode |-> InstructionTable[byte][1],
          operation |-> InstructionTable[byte][2]]
    ELSE [ok |-> FALSE, mode |-> "-", operation |-> "-"]

-----------------------------------------------------------------------------
(* fetch_operand.  A result is the register file as the call leaves it (on *)
(* a panic: as it stood when unwinding began), the operand returned, the   *)
(* memory indices touched in order, and the panic, if any.                 *)

Resolved(regs, operand, reads, panic) ==
    [registers |-> regs, operand |-> operand, reads |-> reads, panic |-> panic]

\* self.registers.program_counter += k   (u16)
AdvancePC(regs, k, checks) ==
    LET sum == regs.program_counter + k
    IN IF sum < U16Size
       THEN [registers |-> [regs EXCEPT !.program_counter = sum], panic |-> NoPanic]
       ELSE IF checks
       THEN [registers |-> regs, panic |-> AddOverflow]
       ELSE [registers |-> [regs EXCEPT !.program_counter = sum % U16Size],
             panic |-> NoPanic]

\* let operand = self.get_byte_from_memory(address);
\* self.registers.program_counter += k;  operand
ReadThenAdvance(mem, regs, address, k, reads, checks) ==
    LET b == get_byte_from_memory(mem, address)
    IN IF Panics(b.panic)
       THEN Resolved(regs, 0, reads \o b.reads, b.panic)
       ELSE LET a == AdvancePC(regs, k, checks)
            IN Resolved(a.registers, IF Panics(a.panic) THEN 0 ELSE b.value,
                        reads \o b.reads, a.panic)

fetch_absolute(mem, regs, checks) ==
    LET w == get_word_from_memory(mem, regs.program_counter)
    IN IF Panics(w.panic) THEN Resolved(regs, 0, w.reads, w.panic)
       ELSE ReadThenAdvance(mem, regs, w.value, 2, w.reads, checks)

\* the sum taken as a 16-bit address
fetch_absolute_x_wrapping(mem, regs, checks) ==
    LET w == get_word_from_memory(mem, regs.program_counter)
    IN IF Panics(w.panic) THEN Resolved(regs, 0, w.reads, w.panic)
       ELSE ReadThenAdvance(mem, regs, (w.value + regs.x) % U16Size, 2, w.reads, checks)

fetch_absolute_x(mem, regs, checks) ==
    LET w == get_word_from_memory(mem, regs.program_counter)
    IN IF Panics(w.panic) THEN Resolved(regs, 0, w.reads, w.panic)
       ELSE ReadThenAdvance(mem, regs, w.value + regs.x, 2, w.reads, checks)

fetch_absolute_y(mem, regs, checks) ==
    LET w == get_word_from_memory(mem, regs.program_counter)
    IN IF Panics(w.panic) THEN Resolved(regs, 0, w.reads, w.panic)
       ELSE ReadThenAdvance(mem, regs, w.value + regs.y, 2, w.reads, checks)

fetch_accumulator(mem, regs, checks) == Resolved(regs, regs.accumulator, <<>>, NoPanic)

\* the byte is read at the program counter as advanced
fetch_immediate_reading_advanced(mem, regs, checks) ==
    LET a == AdvancePC(regs, 2, checks)
    IN IF Panics(a.panic) THEN Resolved(regs, 0, <<>>, a.panic)
       ELSE LET b == get_byte_from_memory(mem, a.registers.program_counter)
            IN Resolved(a.registers, b.value, b.reads, b.panic)

fetch_immediate_by_one(mem, regs, checks) ==
    LET pc == regs.program_counter
        a == AdvancePC(regs, 1, checks)
    IN IF Panics(a.panic) THEN Resolved(regs, 0, <<>>, a.panic)
       ELSE LET b == get_byte_from_memory(mem, pc)
            IN Resolved(a.registers, b.value, b.reads, b.panic)

\* the program counter is advanced before the byte at the old value is read
fetch_immediate(mem, regs, checks) ==
    LET pc == regs.program_counter
        a == AdvancePC(regs, 2, checks)
    IN IF Panics(a.panic) THEN Resolved(regs, 0, <<>>, a.panic)
       ELSE LET b == get_byte_from_memory(mem, pc)
            IN Resolved(a.registers, b.value, b.reads, b.panic)

fetch_implied(mem, regs, checks) == Resolved(regs, 0, <<>>, NoPanic)

\* one indirection only: the pointer's own low byte is returned
fetch_indirect_single(mem, regs, checks) ==
    LET pa == get_word_from_memory(mem, regs.program_counter)
    IN IF Panics(pa.panic) THEN Resolved(regs, 0, pa.reads, pa.panic)
       ELSE ReadThenAdvance(mem, regs, pa.value, 2, pa.reads, checks)

fetch_indirect(mem, regs, checks) ==
    LET pa == get_word_from_memory(mem, regs.program_counter)
    IN IF Panics(pa.panic) THEN Resolved(regs, 0, pa.reads, pa.panic)
       ELSE LET p == get_word_from_memory(mem, pa.value)
            IN IF Panics(p.panic) THEN Resolved(regs, 0, pa.reads \o p.reads, p.panic)
               ELSE ReadThenAdvance(mem, regs, p.value, 2, pa.reads \o p.reads, checks)

fetch_indirect_x_unmasked(mem, regs, checks) ==
    LET a == get_byte_from_memory(mem, regs.program_counter)
    IN IF Panics(a.panic) THEN Resolved(regs, 0, a.reads, a.panic)
       ELSE LET pointer_address == a.value + regs.x
                p == get_word_from_memory(mem, pointer_address)
            IN IF Panics(p.panic) THEN Resolved(regs, 0, a.reads \o p.reads, p.panic)
               ELSE ReadThenAdvance(mem, regs, p.value, 1, a.reads \o p.reads, checks)

fetch_indirect_x(mem, regs, checks) ==
    LET a == get_byte_from_memory(mem, regs.program_counter)
    IN IF Panics(a.panic) THEN Resolved(regs, 0, a.reads, a.panic)
       ELSE LET pointer_address == BitAnd(a.value + regs.x, 255)
                p == get_word_from_memory(mem, pointer_address)
            IN IF Panics(p.panic) THEN Resolved(regs, 0, a.reads \o p.reads, p.panic)
               ELSE ReadThenAdvance(mem, regs, p.value, 1, a.reads \o p.reads, checks)

fetch_indirect_y_using_y(mem, regs, checks) ==
    LET a == get_byte_from_memory(mem, regs.program_counter)
    IN IF Panics(a.panic) THEN Resolved(regs, 0, a.reads, a.panic)
       ELSE LET p == get_word_from_memory(mem, a.value)
            IN IF Panics(p.panic) THEN Resolved(regs, 0, a.reads \o p.reads, p.panic)
               ELSE ReadThenAdvance(mem, regs, p.value + regs.y, 1,
                                    a.reads \o p.reads, checks)

\* the offset is taken from the x register
fetch_indirect_y(mem, regs, checks) ==
    LET a == get_byte_from_memory(mem, regs.program_counter)
    IN IF Panics(a.panic) THEN Resolved(regs, 0, a.reads, a.panic)
       ELSE LET p == get_word_from_memory(mem, a.value)
            IN IF Panics(p.panic) THEN Resolved(regs, 0, a.reads \o p.reads, p.panic)
               ELSE ReadThenAdvance(mem, regs, p.value + regs.x, 1,
                                    a.reads \o p.reads, checks)

fetch_zero_page(mem, regs, checks) ==
    LET a == get_byte_from_memory(mem, regs.program_counter)
    IN IF Panics(a.panic) THEN Resolved(regs, 0, a.reads, a.panic)
       ELSE ReadThenAdvance(mem, regs, a.value, 1, a.reads, checks)

fetch_zero_page_x_unmasked(mem, regs, checks) ==
    LET a == get_byte_from_memory(mem, regs.program_counter)
    IN IF Panics(a.panic) THEN Resolved(regs, 0, a.reads, a.panic)
       ELSE ReadThenAdvance(mem, regs, a.value + regs.x, 1, a.reads, checks)

fetch_zero_page_x(mem, regs, checks) ==
    LET a == get_byte_from_memory(mem, regs.program_counter)
    IN IF Panics(a.panic) THEN Resolved(regs, 0, a.reads, a.panic)
       ELSE LET final_address == BitAnd(a.value + regs.x, 255)
            IN ReadThenAdvance(mem, regs, final_address, 1, a.reads, checks)

fetch_zero_page_y(mem, regs, checks) ==
    LET a == get_byte_from_memory(mem, regs.program_counter)
    IN IF Panics(a.panic) THEN Resolved(regs, 0, a.reads, a.panic)
       ELSE LET final_address == BitAnd(a.value + regs.y, 255)
            IN ReadThenAdvance(mem, regs, final_address, 1, a.reads, checks)

fetch_operand(mem, regs, mode, checks) ==
    CASE mode = "Absolute"    -> fetch_absolute(mem, regs, checks)
      [] mode = "AbsoluteX"   -> fetch_absolute_x(mem, regs, checks)
      [] mode = "AbsoluteY"   -> fetch_absolute_y(mem, regs, checks)
      [] mode = "Accumulator" -> fetch_accumulator(mem, regs, checks)
      [] mode = "Immediate"   -> fetch_immediate(mem, regs, checks)
      [] mode = "Implied"     -> fetch_implied(mem, regs, checks)
      [] mode = "Indirect"    -> fetch_indirect(mem, regs, checks)
      [] mode = "IndirectX"   -> fetch_indirect_x(mem, regs, checks)
      [] mode = "IndirectY"   -> fetch_indirect_y(mem, regs, checks)
      [] mode = "ZeroPage"    -> fetch_zero_page(mem, regs, checks)
      [] mode = "ZeroPageX"   -> fetch_zero_page_x(mem, regs, checks)
      [] mode = "ZeroPageY"   -> fetch_zero_page_y(mem, regs, checks)

-----------------------------------------------------------------------------
(* step and multiple_steps.  Both take `self` by value: when they panic    *)
(* the state is dropped while unwinding and the caller is left with none.  *)

\* an executor that loads the fetched operand into the accumulator
Stepped_loading(regs, mode, operand, reads, panic) ==
    [registers |-> [regs EXCEPT !.accumulator = operand], mode |-> mode,
     operand |-> operand, reads |-> reads, panic |-> panic]

Stepped(regs, mode, operand, reads, panic) ==
    [registers |-> regs, mode |-> mode, operand |-> operand, reads |-> reads,
     panic |-> panic]

step(mem, regs, checks) ==
    LET pc == regs.program_counter
    IN IF pc >= mem.len
       THEN Stepped(regs, "-", 0, <<pc>>, IndexOutOfBounds(mem.len, pc))
       ELSE LET instruction == ByteAt(mem, pc)
                a == AdvancePC(regs, 1, checks)
                decoded_instruction == decode_instruction(instruction)
            IN IF Panics(a.panic)
               THEN Stepped(regs, "-", 0, <<pc>>, a.panic)
               ELSE IF ~decoded_instruction.ok
               THEN Stepped(a.registers, "-", 0, <<pc>>,
                            UnwrapUndefinedOpcode(instruction))
               ELSE LET f == fetch_operand(mem, a.registers,
                                           decoded_instruction.mode, checks)
                    IN \* the operand is not used: no instruction is executed
                       Stepped(f.registers, decoded_instruction.mode, f.operand,
                               <<pc>> \o f.reads, f.panic)

\* The fold's accumulator, with the number of times the closure was called.
Folded(regs, panic, calls) == [registers |-> regs, panic |-> panic, calls |-> calls]

fold_closure_swallowing(mem, acc, checks) ==
    LET s == step(mem, acc.registers, checks)
    IN Folded(s.registers, IF Panics(acc.panic) THEN acc.panic ELSE s.panic,
              acc.calls + 1)

\* |state, _| state.step(); a panic unwinds out of the fold
fold_closure(mem, acc, checks) ==
    IF Panics(acc.panic) THEN acc
    ELSE LET s == step(mem, acc.registers, checks)
         IN Folded(s.registers, s.panic, acc.calls + 1)

\* (lo..hi).fold(acc, closure)
RECURSIVE fold(_, _, _, _, _)
fold(mem, acc, lo, hi, checks) ==
    IF lo >= hi THEN acc
    ELSE fold(mem, fold_closure(mem, acc, checks), lo + 1, hi, checks)

multiple_steps_inclusive(mem, regs, steps, checks) ==
    fold(mem, Folded(regs, NoPanic, 0), 0, steps + 1, checks)

multiple_steps(mem, regs, steps, checks) ==
    fold(mem, Folded(regs, NoPanic, 0), 0, steps, checks)

-----------------------------------------------------------------------------
(* Bounds of the model. *)

\* the largest `steps` handed to multiple_steps
MaxSteps == 2
\* the number of calls made on one state
MaxOps == 2
\* the length of the longest generated image
MaxLen == 3
\* the length of the longest token sequence handed to parse
MaxTokens == 4

-----------------------------------------------------------------------------
(* The memory images the model runs on. *)

EmptyImage == Image(0, 0, <<>>)
\* A9 05 00
LoadImmediateImage == Image(3, 0, (0 :> 169) @@ (1 :> 5))
\* 02
UndefinedFirstImage == Image(1, 2, <<>>)
\* EA 02
NopThenUndefinedImage == Image(2, 2, (0 :> 234))
\* B5 FF B6 FF 03 ... 03 | 04 07 : zero-page indexed operands at the page's end
ZeroPageImage ==
    Image(258, 3, (0 :> 181) @@ (1 :> 255) @@ (2 :> 182) @@ (3 :> 255)
                  @@ (256 :> 4) @@ (257 :> 7))
\* the whole address space: NOPs, A5 at FFFE, 02 at FFFF
FullImageZeroPage == Image(65536, 234, (65534 :> 165) @@ (65535 :> 2))
\* the whole address space: NOPs, the word FFFF at 1, A9 at FFFE
FullImageImmediate == Image(65536, 234, (1 :> 255) @@ (2 :> 255) @@ (65534 :> 169))
\* longer than the address space: BD FF FF 01 03 ... 03 | 09 at 10000
HighImage ==
    Image(65792, 3, (0 :> 189) @@ (1 :> 255) @@ (2 :> 255) @@ (3 :> 1) @@ (65536 :> 9))

\* a program with one instruction per remaining mode, then its data:
\*  0: 0A        Accumulator        1: AD 10 00  Absolute      4: B9 10 00  AbsoluteY
\*  7: 6C 12 00  Indirect          10: A1 12     IndirectX    12: B1 12     IndirectY
\* 14: 02        undefined         16: 22 32     data         18: 14 00     pointer to 20
\* 20: 42 52     data
ProgramImage ==
    Image(24, 0, (0 :> 10) @@ (1 :> 173) @@ (2 :> 16) @@ (4 :> 185) @@ (5 :> 16)
                 @@ (7 :> 108) @@ (8 :> 18) @@ (10 :> 161) @@ (11 :> 18)
                 @@ (12 :> 177) @@ (13 :> 18) @@ (14 :> 2) @@ (16 :> 34)
                 @@ (17 :> 50) @@ (18 :> 20) @@ (20 :> 66) @@ (21 :> 82))

UniformImages == {Image(len, fill, <<>>) : len \in 1..MaxLen, fill \in {0, 5}}

\* the images entered with registers other than the default ones
EnteredImages ==
    {ProgramImage, ZeroPageImage, FullImageZeroPage, FullImageImmediate, HighImage}

Images ==
    {EmptyImage, LoadImmediateImage, UndefinedFirstImage, NopThenUndefinedImage}
    \cup UniformImages \cup EnteredImages

\* Program counters the images are entered at.
EntryPoints(mem) ==
    IF mem = ProgramImage THEN {0, 1, 4, 7, 10, 12}
    ELSE IF mem = ZeroPageImage THEN {0, 1, 2}
    ELSE IF mem = HighImage THEN {0, 1, 3}
    ELSE IF mem.len = U16Size THEN {0, 1, 65534, 65535}
    ELSE {0}

\* Register files a ComputerState { memory, registers } literal is built with.
RegisterFiles(mem) ==
    {DefaultRegisterFile}
    \cup IF mem \in EnteredImages
         THEN {RegisterFile(7, x, y, 0, 0, pc) :
                 x \in {0, 1}, y \in {0, 1}, pc \in EntryPoints(mem)}
         ELSE {}

\* Indices handed to the memory readers: around both ends of the image.
ReadIndices(mem) == {i \in {0, 1, mem.len - 2, mem.len - 1, mem.len, mem.len + 1} : i >= 0}

-----------------------------------------------------------------------------
(* The parser.  A token slice &[Token] is a sequence of tokens; a Result   *)
(* is a record with `ok`, the fields of the Ok value and `error`.          *)

Token(name, text) == [name |-> name, text |-> text]

None == [some |-> FALSE, value |-> ""]
Some(value) == [some |-> TRUE, value |-> value]

Statement(label, operation, operand_mode, operand) ==
    [label |-> label, operation |-> operation, operand_mode |-> operand_mode,
     operand |-> operand]

\* tokens[n..]
SliceFrom(slice, n) == SubSeq(slice, n + 1, Len(slice))

\* the mnemonics of the Operation enumeration
Mnemonics == {InstructionTable[byte][2] : byte \in DOMAIN InstructionTable}

\* Operation::from_str
from_str(text) ==
    IF text \in Mnemonics
    THEN [ok |-> TRUE, operation |-> text, error |-> ""]
    ELSE [ok |-> FALSE, operation |-> "", error |-> "Unknown operation"]

Munched(ok, slice, text, error) ==
    [ok |-> ok, tokens |-> slice, text |-> text, error |-> error]

\* the first token is not looked at
munch_label_by_colon(slice) ==
    IF Len(slice) >= 2 /\ slice[2].name = "Colon"
    THEN Munched(TRUE, SliceFrom(slice, 2), slice[1].text, "")
    ELSE Munched(FALSE, <<>>, "", "Didn't find a label")

munch_label(slice) ==
    IF Len(slice) >= 2 /\ slice[1].name = "Label" /\ slice[2].name = "Colon"
    THEN Munched(TRUE, SliceFrom(slice, 2), slice[1].text, "")
    ELSE Munched(FALSE, <<>>, "", "Didn't find a label")

\* the token after the operation is consumed with it
munch_operation_taking_two(slice) ==
    IF Len(slice) = 0
    THEN Munched(FALSE, <<>>, "", "Unexpected end of program")
    ELSE LET operation == from_str(slice[1].text)
         IN IF operation.ok
            THEN Munched(TRUE, SliceFrom(slice, 2), operation.operation, "")
            ELSE Munched(FALSE, <<>>, "", operation.error)

munch_operation(slice) ==
    IF Len(slice) = 0
    THEN Munched(FALSE, <<>>, "", "Unexpected end of program")
    ELSE LET operation == from_str(slice[1].text)
         IN IF operation.ok
            THEN Munched(TRUE, SliceFrom(slice, 1), operation.operation, "")
            ELSE Munched(FALSE, <<>>, "", operation.error)

NoStatement == Statement(None, "", "Absolute", None)

\* the result of parse_statement, with the slice it was called on
ParsedStatement(called, from, ok, slice, statement, error) ==
    [called |-> called, from |-> from, ok |-> ok, tokens |-> slice,
     statement |-> statement, error |-> error]

parse_statement(slice) ==
    LET maybe_label == munch_label(slice)
        label == IF maybe_label.ok THEN Some(maybe_label.text) ELSE None
        curren_tokens == IF maybe_label.ok THEN maybe_label.tokens ELSE slice
        munched == munch_operation(curren_tokens)
    IN IF munched.ok
       THEN ParsedStatement(TRUE, slice, TRUE, munched.tokens,
                            Statement(label, munched.text, "Absolute", None), "")
       ELSE ParsedStatement(TRUE, slice, FALSE, <<>>, NoStatement, munched.error)

\* what parse returned, once it has
Parsed(returned, ok, stmts, error) ==
    [returned |-> returned, ok |-> ok, statements |-> stmts, error |-> error]

\* the tokens a tokenizer hands over: names (lexical categories) with texts
Tokens ==
    {Token("Label", "GotoLabel"), Token("Label", "NOP"), Token("Label", "LDA"),
     Token("Colon", ":"), Token("Comma", ",")}

TokenSequences == UNION {[1..n -> Tokens] : n \in 0..MaxTokens}

-----------------------------------------------------------------------------
(* The state machine.  memory and registers are the ComputerState at hand; *)
(* call, ret, panicked and pre record the last call, what it returned, its *)
(* panic, and the state it was made on.                                    *)

Call(op, mode, n, index, image) ==
    [op |-> op, mode |-> mode, n |-> n, index |-> index, image |-> image]

Ret(value, reads, calls) == [value |-> value, reads |-> reads, calls |-> calls]

\* step(mut self) and multiple_steps(mut self) take the state by value
consumes_self(op) == op \in {"step", "multiple_steps"}

\* parse has bound mut_tokens and statements and is about to loop
ParseEntered(input) ==
    /\ tokens = input
    /\ mut_tokens = input
    /\ statements = <<>>
    /\ parsed_statement = ParsedStatement(FALSE, <<>>, FALSE, <<>>, NoStatement, "")
    /\ program = Parsed(FALSE, FALSE, <<>>, "")

parserVars == <<tokens, mut_tokens, statements, parsed_statement, program>>

machineVars == <<memory, registers, overflow_checks, owned, call, ret, panicked, pre, ops>>

Init ==
    /\ memory \in Images
    /\ registers \in RegisterFiles(memory)
    /\ overflow_checks \in BOOLEAN
    /\ owned = TRUE
    /\ call = Call("new", "-", 0, 0, EmptyImage)
    /\ ret = Ret(0, <<>>, 0)
    /\ panicked = NoPanic
    /\ pre = ComputerState(memory, registers)
    /\ ops = 0
    /\ ParseEntered(<<>>)

CanCall == owned /\ ~Panics(panicked) /\ ops < MaxOps

Returns(op, mode, n, index, image, regs, value, reads, calls, panic) ==
    /\ registers' = regs
    /\ call' = Call(op, mode, n, index, image)
    /\ ret' = Ret(value, reads, calls)
    /\ panicked' = panic
    /\ owned' = ~(Panics(panic) /\ consumes_self(op))
    /\ pre' = ComputerState(memory, registers)
    /\ ops' = ops + 1
    /\ UNCHANGED <<overflow_checks, parserVars>>

InitializeFromImage(image) ==
    /\ CanCall
    /\ LET s == initialize_from_image(image)
       IN /\ memory' = s.memory
          /\ Returns("initialize_from_image", "-", 0, 0, image, s.registers,
                     0, <<>>, 0, NoPanic)

GetByteFromMemory(index) ==
    /\ CanCall
    /\ LET r == get_byte_from_memory(memory, index)
       IN Returns("get_byte_from_memory", "-", 0, index, EmptyImage, registers,
                  r.value, r.reads, 0, r.panic)
    /\ UNCHANGED memory

GetWordFromMemory(index) ==
    /\ CanCall
    /\ LET r == get_word_from_memory(memory, index)
       IN Returns("get_word_from_memory", "-", 0, index, EmptyImage, registers,
                  r.value, r.reads, 0, r.panic)
    /\ UNCHANGED memory

FetchOperand(mode) ==
    /\ CanCall
    /\ LET r == fetch_operand(memory, registers, mode, overflow_checks)
       IN Returns("fetch_operand", mode, 0, 0, EmptyImage, r.registers,
                  r.operand, r.reads, 0, r.panic)
    /\ UNCHANGED memory

Step ==
    /\ CanCall
    /\ LET r == step(memory, registers, overflow_checks)
       IN Returns("step", r.mode, 0, 0, EmptyImage, r.registers,
                  r.operand, r.reads, 1, r.panic)
    /\ UNCHANGED memory

MultipleSteps(steps) ==
    /\ CanCall
    /\ LET r == multiple_steps(memory, registers, steps, overflow_checks)
       IN Returns("multiple_steps", "-", steps, 0, EmptyImage, r.registers,
                  0, <<>>, r.calls, r.panic)
    /\ UNCHANGED memory

Next ==
    \/ \E image \in Images : InitializeFromImage(image)
    \/ \E index \in ReadIndices(memory) : GetByteFromMemory(index)
    \/ \E index \in ReadIndices(memory) : GetWordFromMemory(index)
    \/ \E mode \in OperandMode : FetchOperand(mode)
    \/ Step
    \/ \E steps \in 0..MaxSteps : MultipleSteps(steps)

Spec == Init /\ [][Next]_vars

-----------------------------------------------------------------------------
(* parse, one turn of its while loop at a time.  The machine is a fresh    *)
(* ComputerState over the empty image that nothing calls.                  *)

InitParse ==
    /\ memory = EmptyImage
    /\ registers = DefaultRegisterFile
    /\ overflow_checks \in BOOLEAN
    /\ owned = TRUE
    /\ call = Call("new", "-", 0, 0, EmptyImage)
    /\ ret = Ret(0, <<>>, 0)
    /\ panicked = NoPanic
    /\ pre = ComputerState(memory, registers)
    /\ ops = 0
    /\ \E input \in TokenSequences : ParseEntered(input)

\* the loop body: parse_statement(mut_tokens)?, then the push
ParseLoop ==
    /\ ~program.returned
    /\ Len(mut_tokens) > 0
    /\ parsed_statement' = parse_statement(mut_tokens)
    /\ IF parsed_statement'.ok
       THEN /\ mut_tokens' = parsed_statement'.tokens
            /\ statements' = Append(statements, parsed_statement'.statement)
            /\ UNCHANGED program
       ELSE /\ program' = Parsed(TRUE, FALSE, <<>>, parsed_statement'.error)
            /\ UNCHANGED <<mut_tokens, statements>>
    /\ UNCHANGED <<tokens, machineVars>>

\* the loop is left: Ok(Program { statements })
ParseReturn ==
    /\ ~program.returned
    /\ Len(mut_tokens) = 0
    /\ program' = Parsed(TRUE, TRUE, statements, "")
    /\ UNCHANGED <<tokens, mut_tokens, statements, parsed_statement, machineVars>>

NextParse == ParseLoop \/ ParseReturn

\* parse is sequential code: it keeps running until it returns
SpecParse == InitParse /\ [][NextParse]_vars /\ WF_vars(NextParse)

-----------------------------------------------------------------------------
(* Definitions the properties are stated with. *)

\* The operand widths the specification gives the modes.
ModeWidth(mode) ==
    IF mode \in {"Accumulator", "Implied"} THEN 0
    ELSE IF mode \in {"ZeroPage", "ZeroPageX", "ZeroPageY", "IndirectX", "IndirectY"}
    THEN 1
    ELSE 2

\* step applied n times in sequence, stopping at a panic
RECURSIVE StepTimes(_, _, _, _)
StepTimes(mem, regs, n, checks) ==
    IF n = 0 THEN [registers |-> regs, panic |-> NoPanic]
    ELSE LET p == StepTimes(mem, regs, n - 1, checks)
         IN IF Panics(p.panic) THEN p
            ELSE LET s == step(mem, p.registers, checks)
                 IN [registers |-> s.registers, panic |-> s.panic]

\* the 0-based index of the first of n steps from regs that panics, -1 if none does
RECURSIVE FailingIndex(_, _, _, _, _)
FailingIndex(mem, regs, k, n, checks) ==
    IF k >= n THEN -1
    ELSE LET s == step(mem, regs, checks)
         IN IF Panics(s.panic) THEN k
            ELSE FailingIndex(mem, s.registers, k + 1, n, checks)

PrePC == pre.registers.program_counter

-----------------------------------------------------------------------------
(* C1 *)

\* C1 as stated: whenever fetch_operand completes, the program counter equals
\* its value before the call plus the mode's width (0, 1 or 2).
C1_PCAdvanceExact ==
    (call.op = "fetch_operand" /\ ~Panics(panicked))
        => registers.program_counter = PrePC + ModeWidth(call.mode)

\* C1 as amended: whenever fetch_operand completes, the program counter equals
\* its value before the call plus the mode's width, modulo 65536.
C1_PCAdvance ==
    (call.op = "fetch_operand" /\ ~Panics(panicked))
        => registers.program_counter = (PrePC + ModeWidth(call.mode)) % U16Size

C1_Witness ==
    /\ call.op = "fetch_operand" /\ ~Panics(panicked)
    /\ call.mode = "Immediate"
    /\ registers.program_counter = PrePC + 2

-----------------------------------------------------------------------------
(* C2 *)

\* C2: one step on the image A9 05 00 with all registers zero leaves the
\* accumulator at 5 and the program counter at 2.
C2_LoadImmediateScenario ==
    (call.op = "step" /\ pre = initialize_from_image(LoadImmediateImage))
        => /\ ~Panics(panicked)
           /\ registers.accumulator = 5
           /\ registers.program_counter = 2

-----------------------------------------------------------------------------
(* C3 *)

\* C3: when all n steps succeed, multiple_steps(s, n) is step applied n times
\* to s; multiple_steps(s, 0) is s; and multiple_steps(multiple_steps(s, a), b)
\* is multiple_steps(s, a + b).
C3_MultipleStepsIsRepeatedStep ==
    call.op = "multiple_steps" =>
        LET e == StepTimes(pre.memory, pre.registers, call.n, overflow_checks)
        IN ~Panics(e.panic) =>
            /\ ~Panics(panicked) /\ owned
            /\ registers = e.registers /\ memory = pre.memory
            /\ call.n = 0 => (registers = pre.registers /\ memory = pre.memory)
            /\ \A a \in 0..call.n :
                 LET first == multiple_steps(pre.memory, pre.registers, a,
                                             overflow_checks)
                     second == multiple_steps(pre.memory, first.registers,
                                              call.n - a, overflow_checks)
                 IN /\ ~Panics(first.panic) /\ ~Panics(second.panic)
                    /\ second.registers = registers

C3_Witness ==
    /\ call.op = "multiple_steps" /\ call.n = 2 /\ ~Panics(panicked)
    /\ ret.calls = 2
    /\ registers.program_counter = PrePC + 4

-----------------------------------------------------------------------------
(* C4 *)

\* C4: a step on a state whose byte at the program counter is an undefined
\* opcode fails with UndefinedOpcode and leaves the caller no state at all,
\* so no partly mutated register file.
C4_UndefinedOpcodeFails ==
    (/\ call.op = "step"
     /\ PrePC < pre.memory.len
     /\ ~decode_instruction(ByteAt(pre.memory, PrePC)).ok)
        => /\ panicked = UnwrapUndefinedOpcode(ByteAt(pre.memory, PrePC))
           /\ ~owned

-----------------------------------------------------------------------------
(* C5 *)

\* What C5 keeps: when step k of multiple_steps(s, n) is the first to fail,
\* the closure is called k + 1 times and no more, the caller gets the panic
\* of that step unchanged and no state.
C5_StopsAtFirstFailure ==
    call.op = "multiple_steps" =>
        LET k == FailingIndex(pre.memory, pre.registers, 0, call.n, overflow_checks)
        IN k >= 0 =>
            LET before == StepTimes(pre.memory, pre.registers, k, overflow_checks)
                failing == step(pre.memory, before.registers, overflow_checks)
            IN /\ Panics(panicked) /\ ~owned
               /\ ret.calls = k + 1
               /\ panicked = failing.panic
               /\ registers = failing.registers

\* The reported failure identifies k: a run of multiple_steps on the same
\* image that reports the same failure failed at the same step.
C5_FailureIdentifiesStep ==
    (call.op = "multiple_steps" /\ Panics(panicked)) =>
        \A entry \in {PrePC + 1, PrePC + 2, PrePC + 3} :
            LET other == [pre.registers EXCEPT !.program_counter = entry]
                run == multiple_steps(pre.memory, other, call.n, overflow_checks)
            IN (entry < U16Size /\ run.panic = panicked)
                => FailingIndex(pre.memory, other, 0, call.n, overflow_checks)
                   = FailingIndex(pre.memory, pre.registers, 0, call.n,
                                  overflow_checks)

\* C5 as stated: multiple_steps stops at the first failing step k, surfaces
\* the failure, and the reported failure identifies k.
C5_ReportsFailingStep == C5_StopsAtFirstFailure /\ C5_FailureIdentifiesStep

C5_Witness ==
    /\ call.op = "multiple_steps" /\ call.n = 2
    /\ Panics(panicked) /\ ~owned
    /\ ret.calls = 1

-----------------------------------------------------------------------------
(* C6 *)

\* C6: get_byte_from_memory(addr) fails as out of bounds whenever
\* addr >= len, and get_word_from_memory(addr) whenever addr + 1 >= len;
\* neither returns a value, reads at a wrapped address, or resizes memory.
C6_OutOfBoundsReads ==
    /\ (call.op = "get_byte_from_memory" /\ call.index >= pre.memory.len)
         => /\ panicked = IndexOutOfBounds(pre.memory.len, call.index)
            /\ ret.reads = <<call.index>>
            /\ memory = pre.memory
    /\ (call.op = "get_word_from_memory" /\ call.index + 1 >= pre.memory.len)
         => /\ panicked.kind = "index_out_of_bounds"
            /\ panicked.len = pre.memory.len
            /\ panicked.index \in {call.index, call.index + 1}
            /\ panicked.index >= pre.memory.len
            /\ \A k \in DOMAIN ret.reads : ret.reads[k] \in {call.index, call.index + 1}
            /\ memory = pre.memory

C6_Witness ==
    /\ call.op = "get_word_from_memory"
    /\ call.index + 1 = pre.memory.len
    /\ panicked = IndexOutOfBounds(pre.memory.len, call.index + 1)

-----------------------------------------------------------------------------
(* C7 *)

\* The indices of image B the round trip is checked at: its first bytes, its
\* last ones and every byte that differs from the fill.
RoundTripIndices(B) ==
    {i \in (0..MaxLen) \cup ReadIndices(B) \cup DOMAIN B.ov : i < B.len}

\* C7: in the state initialize_from_image(B) returns, get_byte_from_memory(i)
\* is B[i] for every index i < len(B).
C7_MemoryRoundTrip ==
    call.op = "initialize_from_image" =>
        \A i \in RoundTripIndices(call.image) :
            get_byte_from_memory(memory, i) = Read(ByteAt(call.image, i), <<i>>, NoPanic)

C7_Witness ==
    /\ call.op = "initialize_from_image"
    /\ call.image = LoadImmediateImage
    /\ get_byte_from_memory(memory, 0).value = 169
    /\ get_byte_from_memory(memory, 1).value = 5

-----------------------------------------------------------------------------
(* C8 *)

\* C8: for i + 1 < len, get_word_from_memory(i) has the byte at i as its low
\* 8 bits and the byte at i + 1 as its high 8 bits, and lies in 0..65535.
C8_WordComposition ==
    (call.op = "get_word_from_memory" /\ call.index + 1 < pre.memory.len)
        => /\ ~Panics(panicked)
           /\ ret.value \in 0..(U16Size - 1)
           /\ ret.value % U8Size = get_byte_from_memory(pre.memory, call.index).value
           /\ ret.value \div U8Size
                = get_byte_from_memory(pre.memory, call.index + 1).value

\* the word at 0 of A9 05 00 is 05A9
C8_Witness ==
    /\ call.op = "get_word_from_memory" /\ call.index = 0
    /\ pre.memory = LoadImmediateImage
    /\ ret.value = 5 * U8Size + 169

-----------------------------------------------------------------------------
(* C9 *)

\* the place of fetch_operand's reads in the reads of the call
OperandReads == IF call.op = "step" THEN Tail(ret.reads) ELSE ret.reads

\* the program counter fetch_operand was entered with
OperandPC == IF call.op = "step" THEN (PrePC + 1) % U16Size ELSE PrePC

IsZeroPageIndexed ==
    /\ call.op \in {"fetch_operand", "step"}
    /\ call.mode \in {"ZeroPageX", "ZeroPageY"}
    /\ OperandPC < pre.memory.len

IndexRegister == IF call.mode = "ZeroPageX" THEN pre.registers.x ELSE pre.registers.y

\* C9: ZeroPageX and ZeroPageY read the operand at (byte@PC + X or Y) mod 256,
\* an address in 0..255: operand byte FF with index 1 reads address 0, not 100.
C9_ZeroPageWrap ==
    IsZeroPageIndexed =>
        LET effective == (ByteAt(pre.memory, OperandPC) + IndexRegister) % U8Size
        IN /\ effective \in 0..(U8Size - 1)
           /\ OperandReads = <<OperandPC, effective>>
           /\ ~Panics(panicked) => ret.value = ByteAt(pre.memory, effective)

C9_Witness ==
    /\ IsZeroPageIndexed /\ ~Panics(panicked)
    /\ ByteAt(pre.memory, OperandPC) = 255 /\ IndexRegister = 1
    /\ OperandReads = <<OperandPC, 0>>
    /\ ret.value = ByteAt(pre.memory, 0)
    /\ ret.value # ByteAt(pre.memory, 256)

-----------------------------------------------------------------------------
(* C10 *)

\* C10: a step whose instruction bytes are readable never fails on the
\* program counter's arithmetic and leaves the program counter at
\* (old PC + 1 + width) mod 65536, also from FFFF and FFFE.
C10_PCWraps ==
    (call.op = "step" /\ panicked.kind \notin {"index_out_of_bounds", "undefined_opcode"})
        => /\ ~Panics(panicked)
           /\ registers.program_counter = (PrePC + 1 + ModeWidth(call.mode)) % U16Size

-----------------------------------------------------------------------------
(* C11 *)

\* C11: initialize_from_image(B) returns a state whose memory is exactly B
\* and whose six registers are all zero, for every B, the empty one included.
C11_InitialState ==
    call.op = "initialize_from_image" =>
        /\ ~Panics(panicked) /\ owned
        /\ memory = call.image
        /\ memory.len = call.image.len
        /\ registers.accumulator = 0 /\ registers.x = 0 /\ registers.y = 0
        /\ registers.status = 0 /\ registers.stack_pointer = 0
        /\ registers.program_counter = 0

\* the empty image, built while a state with other registers was at hand
C11_Witness ==
    /\ call.op = "initialize_from_image"
    /\ call.image = EmptyImage /\ memory.len = 0
    /\ pre.registers.accumulator = 7 /\ pre.registers.program_counter # 0
    /\ registers = RegisterFile(0, 0, 0, 0, 0, 0)

-----------------------------------------------------------------------------
(* C12 *)

\* everything of the state but the program counter is as before the call
OnlyPCChanged ==
    /\ memory = pre.memory
    /\ registers.accumulator = pre.registers.accumulator
    /\ registers.x = pre.registers.x
    /\ registers.y = pre.registers.y
    /\ registers.status = pre.registers.status
    /\ registers.stack_pointer = pre.registers.stack_pointer

-----------------------------------------------------------------------------
(* Definitions the properties of the modes are stated with. *)

\* fetch_operand was called with this mode, directly or by step
Resolves(mode) == call.op \in {"fetch_operand", "step"} /\ call.mode = mode

\* the register file fetch_operand was entered with
EntryRegisters == [pre.registers EXCEPT !.program_counter = OperandPC]

InMemory(i) == i < pre.memory.len

ByteOf(i) == ByteAt(pre.memory, i)

\* the byte at i as the low 8 bits, the byte at i + 1 as the high 8 bits
WordOf(i) == ByteOf(i) + U8Size * ByteOf(i + 1)

\* what the call at hand did, as a result of fetch_operand
Observed == Resolved(registers, ret.value, OperandReads, panicked)

\* the values the index registers are varied over
IndexValues == {0, 1, 2, 255}

-----------------------------------------------------------------------------
(* C13 *)

\* C13: IndirectY takes zpAddr = byte@PC and ptr = word@zpAddr, returns the
\* byte at ptr + X (X, not Y, and the sum unmasked) and advances PC by 1; the
\* Y register has no influence on what is resolved.
C13_IndirectYUsesX ==
    (Resolves("IndirectY") /\ InMemory(OperandPC)) =>
        LET zpAddr == ByteOf(OperandPC)
            ptr == WordOf(zpAddr)
            address == ptr + pre.registers.x
        IN /\ InMemory(zpAddr + 1) =>
                /\ OperandReads = <<OperandPC, zpAddr, zpAddr + 1, address>>
                /\ ~InMemory(address)
                     => panicked = IndexOutOfBounds(pre.memory.len, address)
                /\ ~Panics(panicked)
                     => /\ ret.value = ByteOf(address)
                        /\ registers.program_counter = (OperandPC + 1) % U16Size
           /\ \A y \in IndexValues :
                fetch_operand(pre.memory, [EntryRegisters EXCEPT !.y = y],
                              "IndirectY", overflow_checks)
                  = [Observed EXCEPT !.registers.y = y]

\* x = 1 and y = 0: the byte after the one the pointer names is returned
C13_Witness ==
    /\ Resolves("IndirectY") /\ ~Panics(panicked)
    /\ pre.registers.x = 1 /\ pre.registers.y = 0
    /\ ret.value = ByteOf(WordOf(ByteOf(OperandPC)) + 1)
    /\ ret.value # ByteOf(WordOf(ByteOf(OperandPC)))

-----------------------------------------------------------------------------
(* C14 *)

\* C14: IndirectX takes ptrAddr = (byte@PC + X) mod 256, reads the pointer
\* little-endian from ptrAddr and ptrAddr + 1 (for ptrAddr = FF the high byte
\* comes from 100, not 00), returns the byte at the pointer and advances PC
\* by 1.
C14_IndirectX ==
    (Resolves("IndirectX") /\ InMemory(OperandPC)) =>
        LET ptrAddr == (ByteOf(OperandPC) + pre.registers.x) % U8Size
            ptr == WordOf(ptrAddr)
        IN /\ ptrAddr \in 0..(U8Size - 1)
           /\ Len(OperandReads) >= 2
           /\ OperandReads[1] = OperandPC /\ OperandReads[2] = ptrAddr
           /\ InMemory(ptrAddr + 1) =>
                /\ OperandReads = <<OperandPC, ptrAddr, ptrAddr + 1, ptr>>
                /\ ~Panics(panicked)
                     => /\ ret.value = ByteOf(ptr)
                        /\ registers.program_counter = (OperandPC + 1) % U16Size

\* the pointer at FF: its high byte is the byte at 100, which differs from 00
C14_Witness ==
    /\ Resolves("IndirectX") /\ ~Panics(panicked)
    /\ (ByteOf(OperandPC) + pre.registers.x) % U8Size = 255
    /\ ByteOf(256) # ByteOf(0)
    /\ OperandReads = <<OperandPC, 255, 256, ByteOf(255) + U8Size * ByteOf(256)>>
    /\ ret.value = ByteOf(ByteOf(255) + U8Size * ByteOf(256))

-----------------------------------------------------------------------------
(* C15 *)

AbsoluteIndex == IF call.mode = "AbsoluteX" THEN pre.registers.x ELSE pre.registers.y

ResolvesAbsoluteIndexed ==
    /\ call.op \in {"fetch_operand", "step"}
    /\ call.mode \in {"AbsoluteX", "AbsoluteY"}
    /\ InMemory(OperandPC + 1)

\* C15: AbsoluteX and AbsoluteY read the operand at word@PC + X (or Y), the
\* sum unmasked, so it may exceed FFFF; an address not below len(memory)
\* fails as out of range instead of wrapping to a low address, any other
\* returns the byte at it and advances PC by 2.
C15_AbsoluteIndexed ==
    ResolvesAbsoluteIndexed =>
        LET address == WordOf(OperandPC) + AbsoluteIndex
        IN /\ OperandReads = <<OperandPC, OperandPC + 1, address>>
           /\ ~InMemory(address) => panicked = IndexOutOfBounds(pre.memory.len, address)
           /\ InMemory(address) => panicked.kind # "index_out_of_bounds"
           /\ ~Panics(panicked)
                => /\ ret.value = ByteOf(address)
                   /\ registers.program_counter = (OperandPC + 2) % U16Size

\* word FFFF and index 1: the byte at 10000 is returned, not the byte at 0
C15_Witness ==
    /\ ResolvesAbsoluteIndexed /\ ~Panics(panicked)
    /\ WordOf(OperandPC) = U16Size - 1 /\ AbsoluteIndex = 1
    /\ OperandReads[3] = U16Size
    /\ ret.value = ByteOf(U16Size) /\ ret.value # ByteOf(0)
    /\ registers.program_counter = OperandPC + 2

-----------------------------------------------------------------------------
(* C16 *)

\* C16: Immediate returns the byte at the program counter as it was before
\* the advance, although the counter is advanced by 2 before memory is read;
\* Accumulator returns the accumulator and Implied returns 0, both without
\* reading memory or changing the program counter.
C16_ImmediateAccumulatorImplied ==
    /\ Resolves("Immediate") =>
         /\ panicked.kind = "add_overflow" => OperandReads = <<>>
         /\ panicked.kind # "add_overflow" =>
              /\ OperandReads = <<OperandPC>>
              /\ registers.program_counter = (OperandPC + 2) % U16Size
              /\ Panics(panicked) <=> ~InMemory(OperandPC)
              /\ Panics(panicked) => panicked = IndexOutOfBounds(pre.memory.len, OperandPC)
              /\ ~Panics(panicked) => ret.value = ByteOf(OperandPC)
    /\ Resolves("Accumulator") =>
         /\ ~Panics(panicked) /\ OperandReads = <<>>
         /\ ret.value = pre.registers.accumulator
         /\ registers.program_counter = OperandPC
    /\ Resolves("Implied") =>
         /\ ~Panics(panicked) /\ OperandReads = <<>>
         /\ ret.value = 0
         /\ registers.program_counter = OperandPC

\* the byte returned is the one before the advance, not the one after it
C16_Witness ==
    /\ Resolves("Immediate") /\ ~Panics(panicked)
    /\ registers.program_counter = OperandPC + 2
    /\ InMemory(registers.program_counter)
    /\ ret.value = ByteOf(OperandPC)
    /\ ret.value # ByteOf(registers.program_counter)

-----------------------------------------------------------------------------
(* C17 *)

\* the call resolves the same whatever the index registers hold
IndexRegistersIgnored ==
    \A x \in IndexValues, y \in IndexValues :
        fetch_operand(pre.memory, [EntryRegisters EXCEPT !.x = x, !.y = y],
                      call.mode, overflow_checks)
          = [Observed EXCEPT !.registers.x = x, !.registers.y = y]

\* C17: Indirect takes ptrAddr = word@PC and ptr = word@ptrAddr, returns
\* byte@ptr and advances PC by 2; Absolute takes addr = word@PC, returns
\* byte@addr and advances PC by 2; no index register influences either.
C17_IndirectAndAbsolute ==
    /\ (Resolves("Absolute") /\ InMemory(OperandPC + 1)) =>
         LET addr == WordOf(OperandPC)
         IN /\ OperandReads = <<OperandPC, OperandPC + 1, addr>>
            /\ ~Panics(panicked)
                 => /\ ret.value = ByteOf(addr)
                    /\ registers.program_counter = (OperandPC + 2) % U16Size
            /\ IndexRegistersIgnored
    /\ (Resolves("Indirect") /\ InMemory(OperandPC + 1)) =>
         LET ptrAddr == WordOf(OperandPC)
             ptr == WordOf(ptrAddr)
         IN /\ Len(OperandReads) >= 3
            /\ SubSeq(OperandReads, 1, 3) = <<OperandPC, OperandPC + 1, ptrAddr>>
            /\ InMemory(ptrAddr + 1) =>
                 /\ OperandReads = <<OperandPC, OperandPC + 1, ptrAddr, ptrAddr + 1, ptr>>
                 /\ ~Panics(panicked)
                      => /\ ret.value = ByteOf(ptr)
                         /\ registers.program_counter = (OperandPC + 2) % U16Size
            /\ IndexRegistersIgnored

\* the byte the pointer names is returned, not the pointer's own low byte
C17_Witness ==
    /\ Resolves("Indirect") /\ ~Panics(panicked)
    /\ pre.registers.x = 1 /\ pre.registers.y = 1
    /\ ret.value = ByteOf(WordOf(WordOf(OperandPC)))
    /\ ret.value # ByteOf(WordOf(OperandPC))
    /\ registers.program_counter = OperandPC + 2

-----------------------------------------------------------------------------
(* C18 *)

\* an operand resolution failed on a memory access that was out of range
OutOfRangeFailure ==
    /\ call.op \in {"fetch_operand", "step"} /\ call.mode \in OperandMode
    /\ panicked.kind = "index_out_of_bounds"

\* C18: in fetch_operand, for every mode, when a memory access is out of
\* range the failure occurs before the program counter has been advanced:
\* at the point of failure the counter still equals its value on entry.
C18_FailsBeforeAdvance ==
    OutOfRangeFailure => registers.program_counter = OperandPC

\* every mode but Immediate does fail with the counter as it was on entry
C18_FailsBeforeAdvanceExceptImmediate ==
    (OutOfRangeFailure /\ call.mode # "Immediate")
        => registers.program_counter = OperandPC

-----------------------------------------------------------------------------
(* Definitions the parser's properties are stated with. *)

\* the slice starts with a Label token followed by a Colon token
StartsWithLabel(slice) ==
    Len(slice) >= 2 /\ slice[1].name = "Label" /\ slice[2].name = "Colon"

\* the tokens one statement stands for
Consumed(statement) == IF statement.label.some THEN 3 ELSE 1

RECURSIVE ConsumedBy(_)
ConsumedBy(stmts) ==
    IF stmts = <<>> THEN 0
    ELSE Consumed(Head(stmts)) + ConsumedBy(Tail(stmts))

\* the i-th statement was read off the input where the ones before it ended
InInputOrder(stmts) ==
    \A i \in 1..Len(stmts) :
        LET offset == ConsumedBy(SubSeq(stmts, 1, i - 1))
            st == stmts[i]
        IN /\ offset + Consumed(st) <= Len(tokens)
           /\ st.operation = tokens[offset + Consumed(st)].text
           /\ st.label.some =>
                /\ tokens[offset + 1].name = "Label"
                /\ tokens[offset + 2].name = "Colon"
                /\ st.label.value = tokens[offset + 1].text
           /\ ~st.label.some => ~StartsWithLabel(SliceFrom(tokens, offset))

-----------------------------------------------------------------------------
(* C19 *)

\* a successful parse_statement consumed exactly 3 tokens of a slice that
\* starts with Label, Colon and exactly 1 token of any other slice
ConsumesOneOrThree ==
    (parsed_statement.called /\ parsed_statement.ok) =>
        LET from == parsed_statement.from
            k == IF StartsWithLabel(from) THEN 3 ELSE 1
        IN /\ k <= Len(from)
           /\ parsed_statement.tokens = SliceFrom(from, k)
           /\ Len(parsed_statement.tokens) = Len(from) - k

\* the statements so far are in input order and stand for the tokens consumed
StatementsFollowInput ==
    /\ InInputOrder(statements)
    /\ mut_tokens = SliceFrom(tokens, ConsumedBy(statements))
    /\ ConsumedBy(statements) + Len(mut_tokens) = Len(tokens)
    /\ (program.returned /\ program.ok) =>
         /\ program.statements = statements
         /\ ConsumedBy(program.statements) = Len(tokens)

\* the first statement error is what parse returns, with no Program
FirstErrorAborts ==
    /\ (parsed_statement.called /\ ~parsed_statement.ok) =>
         /\ program.returned /\ ~program.ok
         /\ program.error = parsed_statement.error
         /\ program.statements = <<>>
         /\ parsed_statement.from = mut_tokens
    /\ (program.returned /\ ~program.ok) =>
         parsed_statement.called /\ ~parsed_statement.ok
    /\ (parsed_statement.called /\ StartsWithLabel(parsed_statement.from)
          /\ Len(parsed_statement.from) = 2) =>
         /\ ~parsed_statement.ok
         /\ program.error = "Unexpected end of program"

\* every turn of the loop leaves a strictly shorter slice or returns
LoopShortens ==
    /\ ~program.returned
    /\ \/ Len(mut_tokens') < Len(mut_tokens)
       \/ program'.returned /\ mut_tokens' = mut_tokens

\* C19: parse terminates for every finite token sequence: each successful
\* parse_statement consumes exactly 1 token, or exactly 3 when the slice
\* starts with Label, Colon, so the slice gets strictly shorter; on success
\* the statements are in input order and their token counts sum to the
\* input length; the first statement error (a trailing Label, Colon with no
\* operation included) aborts parse with that error and no Program.
C19_ParseTerminates ==
    /\ [](ConsumesOneOrThree /\ StatementsFollowInput /\ FirstErrorAborts)
    /\ [][LoopShortens]_vars
    /\ <>program.returned

\* a labelled and an unlabelled statement in input order, 3 + 1 tokens
C19_Witness ==
    /\ program.returned /\ program.ok
    /\ Len(tokens) = 4
    /\ Len(program.statements) = 2
    /\ program.statements[1].label = Some("GotoLabel")
    /\ program.statements[2].label = None
    /\ ConsumedBy(program.statements) = 4

-----------------------------------------------------------------------------
(* C20 *)

\* munch_label on a slice: success exactly on Label, Colon, with the text
\* of the first token and the slice from the third token
LabelMunched(slice) ==
    LET munched == munch_label(slice)
    IN /\ munched.ok <=> StartsWithLabel(slice)
       /\ munched.ok => /\ munched.text = slice[1].text
                        /\ munched.tokens = SliceFrom(slice, 2)
       /\ ~munched.ok => munched.error = "Didn't find a label"

\* parse_statement after munch_label: past the label, or from the slice as
\* it was given, with no label
ContinuesAfterLabel ==
    parsed_statement.called =>
        LET from == parsed_statement.from
            rest == IF StartsWithLabel(from) THEN SliceFrom(from, 2) ELSE from
            label == IF StartsWithLabel(from) THEN Some(from[1].text) ELSE None
        IN /\ parsed_statement.ok =>
                /\ parsed_statement.statement.label = label
                /\ rest # <<>>
                /\ parsed_statement.statement.operation = rest[1].text
                /\ parsed_statement.tokens = SliceFrom(rest, 1)
           /\ ~parsed_statement.ok =>
                /\ parsed_statement.error # "Didn't find a label"
                /\ rest = <<>> \/ ~from_str(rest[1].text).ok

\* C20: munch_label succeeds exactly when the slice has at least 2 tokens,
\* the first named "Label" and the second named "Colon"; it then returns
\* the text of the first token and the slice starting at the third token;
\* otherwise it returns an error and parse_statement continues from the
\* original, unconsumed slice with label = None.
C20_MunchLabel ==
    /\ LabelMunched(mut_tokens)
    /\ LabelMunched(parsed_statement.from)
    /\ ContinuesAfterLabel

\* the slice of the unit test, followed by an operation
C20_Witness ==
    /\ parsed_statement.called /\ parsed_statement.ok
    /\ Len(parsed_statement.from) >= 3
    /\ SubSeq(parsed_statement.from, 1, 2)
         = <<Token("Label", "GotoLabel"), Token("Colon", ":")>>
    /\ munch_label(parsed_statement.from).ok
    /\ parsed_statement.statement.label = Some("GotoLabel")
    /\ parsed_statement.tokens = SliceFrom(parsed_statement.from, 3)

====
